---- MODULE Spec2Model ----
(***************************************************************************)
(* A model of cmonster's preprocessor facade                               *)
(* (src/src/cmonster/core/preprocessor.cpp): the macro table builder, the  *)
(* dynamic macro bridge (capture pragma + per-name dispatch handler), the  *)
(* tokenizer and the token iterator, on top of a model of the lexing       *)
(* engine the facade drives (include/macro stack, cached lookahead tokens, *)
(* macro expansion, _Pragma handling).                                     *)
(***************************************************************************)
EXTENDS Integers, Sequences, FiniteSets, TLC

(***************************************************************************)
(* Tokens.  A token carries its spelling, the source unit it was lexed     *)
(* from, its presumed line/column, and the flags the code reads or sets.   *)
(***************************************************************************)
MainUnit == 0
ScratchUnit == -1
MacroUnit == -2
NoUnit == -3

Tok(sp, unit, line, col, ls, sol) ==
    [sp |-> sp, unit |-> unit, line |-> line, col |-> col,
     ls |-> ls, sol |-> sol, noexp |-> FALSE]

\* A token made by Preprocessor::CreateString: it lives in the scratch buffer.
Scratch(sp, ls) == Tok(sp, ScratchUnit, 1, 1, ls, FALSE)

EofTok == Tok("<eof>", NoUnit, 0, 0, FALSE, FALSE)
EodTok == Tok("<eod>", NoUnit, 0, 0, FALSE, FALSE)
\* What a clang::Token holds before anything was lexed into it.
NoTok == Tok("<none>", NoUnit, 0, 0, FALSE, FALSE)

Spellings(toks) == [i \in 1..Len(toks) |-> toks[i].sp]

(***************************************************************************)
(* The raw lexer: characters to tokens.  Identifier characters group into  *)
(* one token, every other non-blank character is a token of its own.       *)
(***************************************************************************)
IdentChars ==
    {"a", "b", "c", "d", "e", "f", "g", "h", "i", "j", "k", "l", "m", "n",
     "o", "p", "q", "r", "s", "t", "u", "v", "w", "x", "y", "z",
     "A", "B", "C", "E", "F", "G", "M", "N", "O", "P", "R", "S", "T", "V",
     "_", "0", "1", "2", "3"}

CharAt(s, i) == SubSeq(s, i + 1, i + 1)     \* s[i], 0-based as in the code

RECURSIVE IdentEnd(_, _)
\* 1-based index of the last character of the identifier run starting at i.
IdentEnd(s, i) ==
    IF i < Len(s) /\ SubSeq(s, i + 1, i + 1) \in IdentChars
    THEN IdentEnd(s, i + 1)
    ELSE i

RECURSIVE StringEnd(_, _, _)
\* 1-based index of the quote that closes the string literal opened at i;
\* i itself where the literal is not terminated (the quote is then a token
\* of its own).
StringEnd(s, i, j) ==
    IF j > Len(s) THEN i
    ELSE IF SubSeq(s, j, j) = "\"" THEN j
    ELSE StringEnd(s, i, j + 1)

RECURSIVE LexFrom(_, _, _, _, _, _, _)
LexFrom(s, i, line, col, ls, sol, unit) ==
    IF i > Len(s) THEN <<>>
    ELSE LET c == SubSeq(s, i, i) IN
         IF c = " " THEN LexFrom(s, i + 1, line, col + 1, TRUE, sol, unit)
         ELSE IF c = "\n" THEN LexFrom(s, i + 1, line + 1, 1, FALSE, TRUE, unit)
         ELSE LET j == IF c \in IdentChars THEN IdentEnd(s, i)
                       ELSE IF c = "\"" THEN StringEnd(s, i, i + 1)
                       ELSE i
              IN  <<Tok(SubSeq(s, i, j), unit, line, col, ls, sol)>>
                  \o LexFrom(s, j + 1, line, col + (j - i + 1), FALSE, FALSE, unit)

RawLex(s, unit) == LexFrom(s, 1, 1, 1, FALSE, TRUE, unit)

(***************************************************************************)
(* Macro definitions (clang::MacroInfo as the code fills it in).           *)
(***************************************************************************)
MacroInfo(fn, va, args, body) ==
    [fn |-> fn, va |-> va, args |-> args, body |-> body]

\* MacroInfo::isIdenticalTo as called at line 289: same shape, same parameter
\* identifiers, and token by token the same spelling; the whitespace flags
\* are compared for every token but the first.  Locations are not compared.
isIdenticalTo(m, other) ==
    /\ Len(m.body) = Len(other.body)
    /\ Len(m.args) = Len(other.args)
    /\ m.fn = other.fn
    /\ m.va = other.va
    /\ m.args = other.args
    /\ \A i \in 1..Len(m.body) :
          /\ m.body[i].sp = other.body[i].sp
          /\ (i # 1 => /\ m.body[i].sol = other.body[i].sol
                       /\ m.body[i].ls = other.body[i].ls)

\* A descriptor that takes every parameter, a trailing "..." too, by its
\* name.
BuildMacro_fixed(value_tokens, args, is_function) ==
    MacroInfo(is_function, FALSE, IF is_function THEN args ELSE <<>>,
              value_tokens)

\* The descriptor add_macro_definition builds before it looks at the table
\* (lines 246-282).
BuildMacro(value_tokens, args, is_function) ==
    IF is_function /\ args # <<>>
    THEN LET va == args[Len(args)] = "..."
             n_args == IF va THEN Len(args) - 1 ELSE Len(args)
             arg_identifiers ==
                 [i \in 1..Len(args) |->
                     IF i <= n_args THEN args[i] ELSE "__VA_ARGS__"]
         IN  MacroInfo(TRUE, va, arg_identifiers, value_tokens)
    ELSE MacroInfo(is_function, FALSE, <<>>, value_tokens)

\* PreprocessorImpl::add_macro_definition on the macro table `table`
\* (a function from the defined names to their MacroInfo).
add_macro_definition(table, name, value_tokens, args, is_function) ==
    LET macro == BuildMacro(value_tokens, args, is_function)
    IN  IF name \in DOMAIN table
        THEN [result |-> IF isIdenticalTo(macro, table[name])
                         THEN "true" ELSE "false",
              table |-> table]
        ELSE [result |-> "true", table |-> (name :> macro) @@ table]

(***************************************************************************)
(* The signature parser of Preprocessor::define (lines 501-544), on        *)
(* 0-based indexes as in the code.                                         *)
(***************************************************************************)
Npos == -1

RECURSIVE Find(_, _, _)
\* std::string::find(ch, from)
Find(s, ch, from) ==
    IF from >= Len(s) THEN Npos
    ELSE IF CharAt(s, from) = ch THEN from
    ELSE Find(s, ch, from + 1)

RECURSIVE SkipSpaces(_, _, _)
\* while (start < rparen && name[start] == ' ') ++start;
SkipSpaces(name, start, rparen) ==
    IF start < rparen /\ CharAt(name, start) = " "
    THEN SkipSpaces(name, start + 1, rparen)
    ELSE start

RECURSIVE TrimEnd(_, _, _)
\* while (end > start && name[end] == ' ') --end;
TrimEnd(name, start, end) ==
    IF end > start /\ CharAt(name, end) = " "
    THEN TrimEnd(name, start, end - 1)
    ELSE end

\* name.substr(pos, n)
Substr(name, pos, n) == SubSeq(name, pos + 1, pos + n)

RECURSIVE SplitArgs(_, _, _, _)
\* The while (start < rparen) loop: the parameter names, or a syntax error.
SplitArgs(name, start0, rparen, arg_names) ==
    IF ~(start0 < rparen) THEN [ok |-> TRUE, arg_names |-> arg_names]
    ELSE LET start == SkipSpaces(name, start0, rparen) IN
         IF CharAt(name, start) = ","
         THEN [ok |-> FALSE, arg_names |-> arg_names]
         ELSE LET comma == Find(name, ",", start + 1) IN
              IF comma = Npos
              THEN LET end == TrimEnd(name, start, rparen - 1)
                   IN  SplitArgs(name, rparen, rparen,
                           Append(arg_names, Substr(name, start, end - start + 1)))
              ELSE LET end == TrimEnd(name, start, comma - 1)
                   IN  SplitArgs(name, comma + 1, rparen,
                           Append(arg_names, Substr(name, start, end - start + 1)))

\* What define makes of its `name` argument: an object-like name, a
\* function-like name with its parameters, or a syntax error.
ParseSignature(name) ==
    IF name # "" /\ CharAt(name, Len(name) - 1) = ")"
    THEN LET lparen == Find(name, "(", 0) IN
         IF lparen = Npos
         THEN [ok |-> FALSE, name |-> name, args |-> <<>>, fn |-> TRUE]
         ELSE LET r == SplitArgs(name, lparen + 1, Len(name) - 1, <<>>)
              IN  [ok |-> r.ok, name |-> Substr(name, 0, lparen),
                   args |-> r.arg_names, fn |-> TRUE]
    ELSE [ok |-> TRUE, name |-> name, args |-> <<>>, fn |-> FALSE]

(***************************************************************************)
(* The lexing engine (clang::Preprocessor) as the facade drives it.        *)
(*                                                                         *)
(* stack     the current lexer (head) followed by the include/macro stack; *)
(*           a frame of kind "none" is the engine's "no current lexer",    *)
(*           which above other frames means caching-lex mode               *)
(* cached    CachedTokens, pos = CachedLexPos (the lookahead buffer)       *)
(* macros    the macro table; disabled = macros being expanded             *)
(* pragmas   the top-level pragma handlers; a handler of type "ns" is a    *)
(*           namespace holding per-name handlers in sub                    *)
(* mailbox   TokenSaverPragmaHandler::tokens                               *)
(* depth     FileChangePPCallback::depth (callbacks = it is attached)      *)
(* log       the directives handled and callbacks run, in order            *)
(* err       "" or the exception in flight                                 *)
(***************************************************************************)
Frame(kind, unit, name, toks) ==
    [kind |-> kind, unit |-> unit, name |-> name, toks |-> toks]

NoLexer == Frame("none", NoUnit, "", <<>>)

NoFcn == [n \in {} |-> 0]

Handler(type, cb, sub) == [type |-> type, cb |-> cb, sub |-> sub]

\* depth is an unsigned int; it is kept here as the signed 32-bit reading of
\* its bits, so that 0 - 1 (UINT_MAX) is -1.  Unsigned comparison:
UnsignedLE(a, b) == IF (a < 0) = (b < 0) THEN a <= b ELSE b < 0

\* Lines 96-98 and 226-227: the capture pragma's name.
CapturePragma == "cmonster_pragma"
\* Lines 414-416: the namespace of the per-name handlers.
Namespace == "cmonster"

\* The predefines buffer as line 219-221 extends it: one directive.
PredefDirective == "#define _CMONSTER_PRAGMA(...) _Pragma(#__VA_ARGS__)"
PredefUnit == -4

\* compiler.createPreprocessor(): a fresh engine.  Only the primary one gets
\* the extended predefines, the token saver and the file-change callback
\* (lines 217-232).
NewEngine(primary) ==
    [macros |-> NoFcn, disabled |-> {}, stack |-> <<NoLexer>>,
     cached |-> <<>>, pos |-> 0, depth |-> 0, callbacks |-> primary,
     pragmas |-> IF primary
                 THEN (CapturePragma :> Handler("saver", "", NoFcn))
                 ELSE NoFcn,
     predefines |-> IF primary THEN <<PredefDirective>> ELSE <<>>,
     entered |-> 0, mailbox |-> <<>>, log |-> <<>>, err |-> ""]

InCachingLexMode(e) == Head(e.stack).kind = "none" /\ Len(e.stack) > 1

\* PushIncludeMacroStack followed by installing `frame` as the current lexer.
PushLexer(e, frame) == [e EXCEPT !.stack = <<frame>> \o @]

RemoveTopOfLexerStack(e) == [e EXCEPT !.stack = Tail(@)]

EnterCachingLexMode(e) ==
    IF InCachingLexMode(e) THEN e ELSE PushLexer(e, NoLexer)

ExitCachingLexMode(e) ==
    IF InCachingLexMode(e) THEN RemoveTopOfLexerStack(e) ELSE e

\* Preprocessor::EnterSourceFileWithLexer: the current lexer is pushed only
\* if there is one; a file (not a _Pragma lexer) reports EnterFile.
EnterSourceFileWithLexer(e, frame) ==
    LET e1 == IF Head(e.stack).kind = "none"
              THEN [e EXCEPT !.stack = <<frame>> \o Tail(@)]
              ELSE PushLexer(e, frame)
    IN  IF e.callbacks /\ frame.kind = "file"
        THEN [e1 EXCEPT !.depth = @ + 1]
        ELSE e1

EnterSourceFile(e, unit, toks) ==
    EnterSourceFileWithLexer([e EXCEPT !.entered = @ + 1],
                             Frame("file", unit, "", toks))

\* Preprocessor::EnterMainSourceFile: the main file, and on top of it the
\* predefines buffer, which is therefore lexed first.
EnterMainSourceFile(e, mainToks) ==
    LET e1 == EnterSourceFile(e, MainUnit, mainToks)
        pre == [i \in 1..Len(e.predefines) |->
                   Tok(e.predefines[i], PredefUnit, i, 1, FALSE, TRUE)]
    IN  EnterSourceFile(e1, PredefUnit, pre)

\* Preprocessor::EnterTokenStream: always pushes.
EnterTokenStream(e, toks) == PushLexer(e, Frame("stream", NoUnit, "", toks))

IsIdentifier(sp) == Len(sp) > 0 /\ SubSeq(sp, 1, 1) \in IdentChars

IsDirective(sp) == Len(sp) > 0 /\ SubSeq(sp, 1, 1) = "#"

\* The macro the predefines line defines.
CMonsterPragmaMacro ==
    MacroInfo(TRUE, TRUE, <<"__VA_ARGS__">>,
              <<Tok("_Pragma", PredefUnit, 1, 31, TRUE, FALSE),
                Tok("(", PredefUnit, 1, 38, FALSE, FALSE),
                Tok("#", PredefUnit, 1, 39, FALSE, FALSE),
                Tok("__VA_ARGS__", PredefUnit, 1, 40, FALSE, FALSE),
                Tok(")", PredefUnit, 1, 51, FALSE, FALSE)>>)

(***************************************************************************)
(* Callbacks (cmonster::core::FunctionMacro): functions from the captured  *)
(* tokens to replacement tokens, or a raised error.                        *)
(***************************************************************************)
NoCallback == "none"

Raises(cb) == cb = "raise"

Invocation(name, args) ==
    <<Scratch(name, FALSE), Scratch("(", FALSE)>> \o args
        \o <<Scratch(")", FALSE)>>

Call(cb, args) ==
    CASE cb = "echo"  -> args
      [] cb = "count" -> <<Scratch(IF Len(args) = 1 THEN "one" ELSE "many",
                                   FALSE)>>
      [] cb = "empty" -> <<>>
      [] cb = "callG" -> Invocation("G", args)
      [] cb = "callF" -> Invocation("F", args)
      [] OTHER        -> <<>>

(***************************************************************************)
(* Lexing.  Every operator takes the engine and returns the engine after   *)
(* it, with the token lexed where there is one.  x = macro expansion is    *)
(* enabled (Lex) or not (LexUnexpandedToken).  Once err is set, every      *)
(* operator returns at once: the exception unwinds the engine's frames.    *)
(***************************************************************************)
R(tok, e) == [tok |-> tok, e |-> e]

Event(ev, name, cb, toks, result, before, after) ==
    [ev |-> ev, name |-> name, cb |-> cb, toks |-> toks, result |-> result,
     before |-> before, after |-> after]

Logged(e, event) == [e EXCEPT !.log = Append(@, event)]

RECURSIVE Eng(_, _)

Ended(tok) == tok.sp \in {"<eof>", "<none>"}

\* Not a token: Lex is to be called again (the `return Lex(Result)` of the
\* engine's handlers).
Again == Tok("<again>", NoUnit, 0, 0, FALSE, FALSE)

\* Preprocessor::Lex: rounds until there is a token to return.
Lex(e, x) ==
    LET r1 == Eng("LexRound", <<e, x>>)
        r2 == Eng("LexRound", <<r1.e, x>>)
        r3 == Eng("LexRound", <<r2.e, x>>)
        r4 == Eng("LexRound", <<r3.e, x>>)
    IN  IF r1.tok # Again THEN r1
        ELSE IF r2.tok # Again THEN r2
        ELSE IF r3.tok # Again THEN r3
        ELSE IF r4.tok # Again THEN r4
        ELSE Eng("Lex", <<r4.e, x>>)

\* for (PP.Lex(token); token.isNot(stop); PP.Lex(token)) acc.push_back(token)
CollectUntil(e, stop, x, acc) ==
    LET r == Eng("Lex", <<e, x>>) IN
    IF r.e.err # "" \/ r.tok.sp = stop \/ Ended(r.tok)
    THEN [toks |-> acc, e |-> r.e]
    ELSE Eng("CollectUntil", <<r.e, stop, x, Append(acc, r.tok)>>)

\* One round of Preprocessor::Lex: a token, or Again where the engine has
\* changed lexers (a macro entered, a lexer popped, a directive handled) and
\* lexing is to go on from there.
LexRound(e, x) ==
    LET h == Head(e.stack) IN
    IF e.err # "" THEN R(NoTok, e)
    ELSE IF h.kind = "none" THEN Eng("CachingLex", <<e, x>>)
    ELSE IF h.toks = <<>>
    THEN IF h.kind \in {"file", "pragma"}
         THEN Eng("HandleEndOfFile", <<e, x>>)
         ELSE Eng("HandleEndOfTokenLexer", <<e, x>>)
    ELSE LET t == Head(h.toks)
             e1 == [e EXCEPT !.stack[1].toks = Tail(@)]
         IN  IF h.kind = "file" /\ t.sol /\ IsDirective(t.sp)
             THEN Eng("HandleDirective", <<e1, t, x>>)
             ELSE IF x /\ IsIdentifier(t.sp)
             THEN Eng("HandleIdentifier", <<e1, t, x>>)
             ELSE R(t, e1)

\* Preprocessor::CachingLex: past the end of everything the token is left
\* as it was; in caching-lex mode the cached tokens come first.
CachingLex(e, x) ==
    IF ~InCachingLexMode(e) THEN R(NoTok, e)
    ELSE IF e.pos < Len(e.cached)
    THEN R(e.cached[e.pos + 1], [e EXCEPT !.pos = @ + 1])
    ELSE LET r == Eng("Lex", <<ExitCachingLexMode(e), x>>) IN
         IF r.e.err # "" THEN r
         ELSE R(r.tok, [r.e EXCEPT !.cached = <<>>, !.pos = 0])

\* Preprocessor::HandleEndOfFile: pop to the includer (reporting ExitFile
\* when the includer is a file lexer), or end of input.
HandleEndOfFile(e, x) ==
    IF Len(e.stack) > 1
    THEN LET e1 == RemoveTopOfLexerStack(e)
             e2 == IF e1.callbacks /\ Head(e1.stack).kind \in {"file", "pragma"}
                   THEN [e1 EXCEPT !.depth = @ - 1]
                   ELSE e1
         IN  R(Again, e2)
    ELSE R(EofTok, [e EXCEPT !.stack = <<NoLexer>>])

\* Preprocessor::HandleEndOfTokenLexer: the macro is enabled again and its
\* lexer popped.
HandleEndOfTokenLexer(e, x) ==
    LET h == Head(e.stack)
        e1 == IF h.kind = "macro" THEN [e EXCEPT !.disabled = @ \ {h.name}] ELSE e
    IN  IF Len(e1.stack) > 1
        THEN R(Again, RemoveTopOfLexerStack(e1))
        ELSE R(EofTok, [e1 EXCEPT !.stack = <<NoLexer>>])

\* The one directive of the inputs: the predefines' #define, which replaces
\* whatever the name was bound to.
HandleDirective(e, t, x) ==
    IF t.sp = PredefDirective
    THEN R(Again, [e EXCEPT !.macros = ("_CMONSTER_PRAGMA" :> CMonsterPragmaMacro) @@ @])
    ELSE R(Again, e)

\* An engine that expands function-like macros only.
HandleIdentifier_plain(e, t, x) ==
    IF t.noexp THEN R(t, e)
    ELSE IF t.sp = "_Pragma" THEN Eng("Handle_Pragma", <<e, t, x>>)
    ELSE IF t.sp \in DOMAIN e.macros /\ e.macros[t.sp].fn
    THEN IF t.sp \in e.disabled
         THEN R([t EXCEPT !.noexp = TRUE], e)
         ELSE Eng("HandleMacroExpandedIdentifier", <<e, t, x>>)
    ELSE R(t, e)

\* Preprocessor::HandleIdentifier
HandleIdentifier(e, t, x) ==
    IF t.noexp THEN R(t, e)
    ELSE IF t.sp = "_Pragma" THEN Eng("Handle_Pragma", <<e, t, x>>)
    ELSE IF t.sp \in DOMAIN e.macros
    THEN IF t.sp \in e.disabled
         THEN R([t EXCEPT !.noexp = TRUE], e)
         ELSE Eng("HandleMacroExpandedIdentifier", <<e, t, x>>)
    ELSE R(t, e)

RECURSIVE LParenBelow(_)
\* Preprocessor::isNextPPTokenLParen past the end of the current token lexer.
LParenBelow(frames) ==
    IF frames = <<>> \/ Head(frames).kind = "none" THEN FALSE
    ELSE IF Head(frames).toks # <<>> THEN Head(Head(frames).toks).sp = "("
    ELSE IF Head(frames).kind \in {"file", "pragma"} THEN FALSE
    ELSE LParenBelow(Tail(frames))

isNextPPTokenLParen(e) ==
    LET h == Head(e.stack) IN
    IF h.toks # <<>> THEN Head(h.toks).sp = "("
    ELSE IF h.kind \in {"file", "pragma"} THEN FALSE
    ELSE LParenBelow(Tail(e.stack))

\* Preprocessor::ReadFunctionLikeMacroArgs, after the '(': the tokens up to
\* the matching ')', lexed unexpanded.
ReadArgTokens(e, nest, acc) ==
    LET r == Eng("Lex", <<e, FALSE>>) IN
    IF r.e.err # "" \/ Ended(r.tok) \/ r.tok.sp = "<eod>"
    THEN [ok |-> FALSE, tok |-> r.tok, flat |-> acc, e |-> r.e]
    ELSE IF r.tok.sp = ")" /\ nest = 0
    THEN [ok |-> TRUE, tok |-> r.tok, flat |-> acc, e |-> r.e]
    ELSE LET t == IF r.tok.sp \in DOMAIN r.e.macros /\ r.tok.sp \in r.e.disabled
                  THEN [r.tok EXCEPT !.noexp = TRUE] ELSE r.tok
             n == IF t.sp = "(" THEN nest + 1
                  ELSE IF t.sp = ")" THEN nest - 1 ELSE nest
         IN  Eng("ReadArgTokens", <<r.e, n, Append(acc, t)>>)

RECURSIVE SplitAtCommas(_, _, _, _)
\* The argument tokens split at the top-level commas into at most `left`
\* fixed arguments; what remains is the variadic argument.
SplitAtCommas(flat, left, nest, cur) ==
    IF flat = <<>> THEN <<cur>>
    ELSE LET t == Head(flat) IN
         IF t.sp = "," /\ nest = 0 /\ left > 0
         THEN <<cur>> \o SplitAtCommas(Tail(flat), left - 1, 0, <<>>)
         ELSE SplitAtCommas(Tail(flat), left,
                  IF t.sp = "(" THEN nest + 1
                  ELSE IF t.sp = ")" THEN nest - 1 ELSE nest,
                  Append(cur, t))

MacroArgs(mi, flat) ==
    IF Len(mi.args) = 0 THEN <<>>
    ELSE SplitAtCommas(flat, Len(mi.args) - 1, 0, <<>>)

ParamIndex(mi, sp) ==
    IF \E k \in 1..Len(mi.args) : mi.args[k] = sp
    THEN CHOOSE k \in 1..Len(mi.args) : mi.args[k] = sp
    ELSE 0

\* Is parameter k used in the body other than as the operand of '#'?
UsedPlainly(mi, k) ==
    \E i \in 1..Len(mi.body) :
        /\ mi.body[i].sp = mi.args[k]
        /\ ~(i > 1 /\ mi.body[i - 1].sp = "#")

\* MacroArgs::getPreExpArgument for every argument the body substitutes:
\* the argument is entered as a token stream and lexed, expanded, to its end.
PreExpandArgs(e, mi, args, k) ==
    IF k > Len(args) \/ e.err # "" THEN [args |-> args, e |-> e]
    ELSE IF k <= Len(mi.args) /\ UsedPlainly(mi, k)
    THEN LET c == Eng("CollectUntil", <<EnterTokenStream(e, Append(args[k], EofTok)),
                               "<eof>", TRUE, <<>>>>)
         IN  IF c.e.err # "" THEN [args |-> args, e |-> c.e]
             ELSE Eng("PreExpandArgs", <<RemoveTopOfLexerStack(c.e), mi,
                                [args EXCEPT ![k] = c.toks], k + 1>>)
    ELSE Eng("PreExpandArgs", <<e, mi, args, k + 1>>)

RECURSIVE JoinSpellings(_, _)
\* MacroArgs::StringifyArgument: the spellings, a space before every token
\* (but the first) that had whitespace before it.
JoinSpellings(toks, i) ==
    IF i > Len(toks) THEN ""
    ELSE (IF i > 1 /\ toks[i].ls THEN " " ELSE "") \o toks[i].sp
         \o JoinSpellings(toks, i + 1)

Stringify(toks) == "\"" \o JoinSpellings(toks, 1) \o "\""

\* What _Pragma does with its string literal: the quotes are removed.
Destringize(s) == SubSeq(s, 2, Len(s) - 1)

RECURSIVE Substitute(_, _, _, _, _)
\* TokenLexer::ExpandFunctionArguments: '#' param is the stringified
\* unexpanded argument, a plain param the pre-expanded argument.
Substitute(mi, raw, pre, i, at) ==
    IF i > Len(mi.body) THEN <<>>
    ELSE LET t == mi.body[i] IN
         IF t.sp = "#" /\ i < Len(mi.body) /\ ParamIndex(mi, mi.body[i + 1].sp) # 0
         THEN LET k == ParamIndex(mi, mi.body[i + 1].sp)
                  a == IF k <= Len(raw) THEN raw[k] ELSE <<>>
              IN  <<Tok(Stringify(a), ScratchUnit, at.line, at.col, t.ls, t.sol)>>
                  \o Substitute(mi, raw, pre, i + 2, at)
         ELSE IF ParamIndex(mi, t.sp) # 0
         THEN LET k == ParamIndex(mi, t.sp)
                  a == IF k <= Len(pre) THEN pre[k] ELSE <<>>
              IN  [j \in 1..Len(a) |->
                      IF j = 1 THEN [a[j] EXCEPT !.ls = t.ls] ELSE a[j]]
                  \o Substitute(mi, raw, pre, i + 1, at)
         ELSE <<t>> \o Substitute(mi, raw, pre, i + 1, at)

\* Preprocessor::EnterMacro: the macro is disabled while its replacement is
\* lexed; the replacement's tokens are located at the expansion.
EnterMacro(e, t, toks) ==
    LET body == [i \in 1..Len(toks) |->
                    [toks[i] EXCEPT !.unit = MacroUnit,
                                    !.line = t.line, !.col = t.col,
                                    !.ls = IF i = 1 THEN t.ls ELSE @,
                                    !.sol = IF i = 1 THEN t.sol ELSE @]]
    IN  [PushLexer(e, Frame("macro", MacroUnit, t.sp, body))
            EXCEPT !.disabled = @ \cup {t.sp}]

\* Preprocessor::HandleMacroExpandedIdentifier
HandleMacroExpandedIdentifier(e, t, x) ==
    LET mi == e.macros[t.sp] IN
    IF mi.fn
    THEN IF ~isNextPPTokenLParen(e) THEN R(t, e)
         ELSE LET lp == Eng("Lex", <<e, FALSE>>)
                  a == Eng("ReadArgTokens", <<lp.e, 0, <<>>>>)
              IN  IF a.e.err # "" THEN R(t, a.e)
                  ELSE IF ~a.ok THEN R(a.tok, a.e)
                  ELSE LET raw == MacroArgs(mi, a.flat)
                           p == Eng("PreExpandArgs", <<a.e, mi, raw, 1>>)
                       IN  IF p.e.err # "" THEN R(t, p.e)
                           ELSE R(Again, EnterMacro(p.e, t,
                                             Substitute(mi, raw, p.args, 1, t)))
    ELSE IF mi.body = <<>> THEN R(Again, e)
    ELSE R(Again, EnterMacro(e, t, mi.body))

(***************************************************************************)
(* Pragmas.                                                                *)
(***************************************************************************)
\* Preprocessor::Handle_Pragma: _Pragma ( "string" ) is lexed, the string's
\* content becomes a directive line lexed by a lexer of its own, the pragma
\* handlers run on it, and lexing goes on with whatever comes next.
Handle_Pragma(e, t, x) ==
    LET lp == Eng("Lex", <<e, x>>) IN
    IF lp.e.err # "" \/ lp.tok.sp # "(" THEN lp
    ELSE LET str == Eng("Lex", <<lp.e, x>>) IN
         IF str.e.err # "" \/ Len(str.tok.sp) < 2 \/ SubSeq(str.tok.sp, 1, 1) # "\""
         THEN str
         ELSE LET rp == Eng("Lex", <<str.e, x>>) IN
              IF rp.e.err # "" \/ rp.tok.sp # ")" THEN rp
              ELSE LET line == Append(RawLex(Destringize(str.tok.sp), ScratchUnit),
                                      EodTok)
                       e1 == EnterSourceFileWithLexer(rp.e,
                                 Frame("pragma", ScratchUnit, "", line))
                       e2 == Eng("HandlePragmaDirective", <<e1>>)
                   \* an exception leaves the caller's token holding the ')'
                   IN  IF e2.err # "" THEN R(rp.tok, e2) ELSE R(Again, e2)

\* Is the current lexer still inside its directive (the eod not yet lexed)?
ParsingPreprocessorDirective(e) ==
    Head(e.stack).kind = "pragma" /\ Head(e.stack).toks # <<>>

\* Preprocessor::HandlePragmaDirective with PragmaNamespace::HandlePragma:
\* the handler is looked up by the pragma's (unexpanded) name, one level
\* down for a namespace; a pragma nobody handles is ignored; what the handler
\* left of the line is discarded.
HandlePragmaDirective(e) ==
    LET n1 == Eng("Lex", <<e, FALSE>>)
        h1 == IF n1.tok.sp \in DOMAIN n1.e.pragmas
              THEN n1.e.pragmas[n1.tok.sp] ELSE Handler("", "", NoFcn)
        n2 == Eng("Lex", <<n1.e, FALSE>>)
        h2 == IF h1.type = "ns" /\ n2.tok.sp \in DOMAIN h1.sub
              THEN h1.sub[n2.tok.sp] ELSE Handler("", "", NoFcn)
        e1 == CASE h1.type = "saver" -> Eng("TokenSaver_HandlePragma", <<n1.e>>)
                [] h1.type = "dyn"   -> Eng("Dynamic_HandlePragma", <<n1.e, n1.tok.sp, h1.cb>>)
                [] h1.type = "ns" /\ h2.type = "dyn" ->
                                        Eng("Dynamic_HandlePragma", <<n2.e, n2.tok.sp, h2.cb>>)
                [] h1.type = "ns" /\ h2.type # "dyn" -> n2.e
                [] OTHER -> n1.e
    IN  IF e1.err = "" /\ ParsingPreprocessorDirective(e1)
        THEN Eng("CollectUntil", <<e1, "<eod>", FALSE, <<>>>>).e
        ELSE e1

\* The loop of lines 105-111: every token up to the end of the directive is
\* lexed, expanded, and pushed onto the saver's tokens.
SaveTokens(e) ==
    LET r == Eng("Lex", <<e, TRUE>>) IN
    IF r.e.err # "" \/ r.tok.sp = "<eod>" \/ Ended(r.tok) THEN r.e
    ELSE Eng("SaveTokens", <<[r.e EXCEPT !.mailbox = Append(@, r.tok)]>>)

\* The capture as the log records it.
Captured(e, before) ==
    IF e.err # "" THEN e
    ELSE Logged(e, Event("capture", CapturePragma, "", e.mailbox, <<>>,
                         before, e.stack))

\* TokenSaverPragmaHandler::HandlePragma (lines 99-112)
TokenSaver_HandlePragma(e) ==
    Captured(Eng("SaveTokens", <<[e EXCEPT !.mailbox = <<>>]>>), e.stack)

\* A build that marks the result's tokens as not to be expanded again.
ResultTokens_noexpand(result) ==
    [i \in 1..Len(result) |-> [result[i] EXCEPT !.noexp = TRUE]]

\* A handler that sets the leading-space flag on the first token too.
ResultTokens_flag_all(result) ==
    [i \in 1..Len(result) |-> [result[i] EXCEPT !.ls = TRUE]]

\* The tokens line 149-154 make of the callback's result.
ResultTokens(result) ==
    [i \in 1..Len(result) |->
        IF i = 1 THEN result[i] ELSE [result[i] EXCEPT !.ls = TRUE]]

\* A handler that enters what it has of a result before the exception
\* leaves it.
Throw_partial(e, name, cb, before) ==
    Logged([EnterTokenStream(e, <<Scratch("partial", FALSE)>>)
               EXCEPT !.err = "raise"],
           Event("raise", name, cb, e.mailbox, <<>>, before,
                 EnterTokenStream(e, <<Scratch("partial", FALSE)>>).stack))

\* Line 142, the callback raising: the exception leaves the handler.
Throw(e, name, cb, before) ==
    Logged([e EXCEPT !.err = "raise"],
           Event("raise", name, cb, e.mailbox, <<>>, before, e.stack))

\* Lines 143-162: the result, if there is any, is entered as a token stream.
Splice(e, result) ==
    IF result # <<>> THEN EnterTokenStream(e, ResultTokens(result)) ELSE e

\* Lines 141-162 on the engine as the discarding loop left it.
Dispatch(e, name, cb, before) ==
    IF e.err # "" THEN e
    ELSE IF Raises(cb) THEN Throw(e, name, cb, before)
    ELSE Logged(Splice(e, Call(cb, e.mailbox)),
                Event("dispatch", name, cb, e.mailbox, Call(cb, e.mailbox),
                      before, Splice(e, Call(cb, e.mailbox)).stack))

\* DynamicPragmaHandler::HandlePragma (lines 130-163)
Dynamic_HandlePragma(e, name, cb) ==
    Dispatch(Eng("CollectUntil", <<e, "<eod>", TRUE, <<>>>>).e, name, cb, e.stack)

\* The engine's operations by name: every call from one to another goes
\* through here.
Eng(op, a) ==
    CASE op = "Lex" -> Lex(a[1], a[2])
      [] op = "LexRound" -> LexRound(a[1], a[2])
      [] op = "CachingLex" -> CachingLex(a[1], a[2])
      [] op = "HandleEndOfFile" -> HandleEndOfFile(a[1], a[2])
      [] op = "HandleEndOfTokenLexer" -> HandleEndOfTokenLexer(a[1], a[2])
      [] op = "HandleDirective" -> HandleDirective(a[1], a[2], a[3])
      [] op = "HandleIdentifier" -> HandleIdentifier(a[1], a[2], a[3])
      [] op = "HandleMacroExpandedIdentifier" -> HandleMacroExpandedIdentifier(a[1], a[2], a[3])
      [] op = "ReadArgTokens" -> ReadArgTokens(a[1], a[2], a[3])
      [] op = "PreExpandArgs" -> PreExpandArgs(a[1], a[2], a[3], a[4])
      [] op = "CollectUntil" -> CollectUntil(a[1], a[2], a[3], a[4])
      [] op = "Handle_Pragma" -> Handle_Pragma(a[1], a[2], a[3])
      [] op = "HandlePragmaDirective" -> HandlePragmaDirective(a[1])
      [] op = "TokenSaver_HandlePragma" -> TokenSaver_HandlePragma(a[1])
      [] op = "SaveTokens" -> SaveTokens(a[1])
      [] op = "Dynamic_HandlePragma" -> Dynamic_HandlePragma(a[1], a[2], a[3])

\* Preprocessor::PeekAhead(1): the token lexed, expanded, goes into the cache
\* and the engine is in caching-lex mode again.
PeekAhead(r) ==
    IF r.e.err # "" THEN r
    ELSE R(r.tok, EnterCachingLexMode([r.e EXCEPT !.cached = Append(@, r.tok)]))

\* Preprocessor::LookAhead(0): the next cached token if there is one, else
\* PeekAhead(1).
LookAhead(e) ==
    IF e.pos < Len(e.cached) THEN R(e.cached[e.pos + 1], e)
    ELSE PeekAhead(Eng("Lex", <<ExitCachingLexMode(e), TRUE>>))

LexUnexpandedToken(e) == Eng("Lex", <<e, FALSE>>)

\* Everything a client gets by calling Lex until the end of input.
FullLex(e) == Eng("CollectUntil", <<e, "<eof>", TRUE, <<>>>>)

(***************************************************************************)
(* The facade (Preprocessor / PreprocessorImpl).                           *)
(*                                                                         *)
(* main      the text of the main file (fixed at construction)             *)
(* pp        the primary engine, made by the constructor                   *)
(* active    which engine compiler.getPreprocessor() is: 1 is the primary, *)
(*           ppCount the number of engines made so far                     *)
(* nextFid   the next FileID createFileIDForMemBuffer hands out            *)
(* iters     the TokenIteratorImpl objects made, each with m_current and   *)
(*           m_next                                                        *)
(* aborted   an assertion of the engine has ended the process              *)
(* hist      the facade calls made so far, in order, each with its         *)
(*           arguments and what it returned                                *)
(***************************************************************************)
VARIABLES main, pp, active, ppCount, nextFid, iters, aborted, hist

vars == <<main, pp, active, ppCount, nextFid, iters, aborted, hist>>

Primary == 1

\* The clients make at most MaxCalls calls of define and tokenize, create at
\* most MaxIters iterators and pull at most MaxNext tokens.
MaxCalls == 2
MaxIters == 1
MaxNext == 6
\* and, where the specification lets them, MaxAgain iterators more.
MaxAgain == 1
\* The client calls the facade's next(expand) at most MaxFacade times.
MaxFacade == 3
\* A token sequence handed to format has at most MaxTokens tokens.
MaxTokens == 3

Configuring == {"define", "defineDynamic", "tokenize", "add_pragma"}

CountOps(ops) == Cardinality({i \in 1..Len(hist) : hist[i].op \in ops})

\* One facade call as hist records it: e0 is the primary engine when the call
\* began, e1 when it returned.
CallRecord(op, a1, a2, result, toks, tok, e0, e1, fid, act) ==
    [op |-> op, a1 |-> a1, a2 |-> a2, result |-> result, toks |-> toks,
     tok |-> tok, fid |-> fid,
     macros0 |-> e0.macros, pragmas0 |-> e0.pragmas, depth0 |-> e0.depth,
     stack0 |-> e0.stack, entered0 |-> e0.entered, log0 |-> Len(e0.log),
     macros |-> e1.macros, pragmas |-> e1.pragmas, depth |-> e1.depth,
     stack |-> e1.stack, entered |-> e1.entered, log |-> Len(e1.log),
     active |-> act]

\* The exception has left the engine: the facade call is over.
Landed(e) == [e EXCEPT !.err = ""]

Outcome(e, ok) == IF e.err # "" THEN e.err ELSE ok

\* What a facade call leaves: its result, the tokens it returns, the token
\* it prefetched, and the facade's fields after it.
Ret(result, toks, tok, e, act, count, fid) ==
    [result |-> result, toks |-> toks, tok |-> tok, pp |-> e,
     active |-> act, ppCount |-> count, nextFid |-> fid]

Facade == [pp |-> pp, active |-> active, ppCount |-> ppCount, nextFid |-> nextFid]

Commit(op, a1, a2, r) ==
    /\ pp' = r.pp
    /\ active' = r.active
    /\ ppCount' = r.ppCount
    /\ nextFid' = r.nextFid
    /\ hist' = Append(hist, CallRecord(op, a1, a2, r.result, r.toks, r.tok,
                                       pp, r.pp, nextFid, r.active))

(***************************************************************************)
(* Preprocessor::tokenize (lines 584-657)                                  *)
(***************************************************************************)
\* ~PreprocessorResetter (line 65): the compiler gets the old engine back.
\* A resetter that leaves the compiler on the engine in use.
PreprocessorResetter_leave(old_pp, current) == current

PreprocessorResetter(old_pp, current) == old_pp

RECURSIVE TokenizeLoop(_, _, _)
\* Lines 642-654: the token is lexed, unexpanded, and appended.
TokenizeTake(r, fid, result) ==
    IF r.e.err # "" THEN [toks |-> result, e |-> r.e]
    ELSE TokenizeLoop(r.e, fid, Append(result, r.tok))

\* The loop condition of lines 639-640 on the token LookAhead(0) gave.
TokenizePeek(la, fid, result) ==
    IF la.e.err = "" /\ la.tok.sp # "<eof>" /\ la.tok.unit = fid
    THEN TokenizeTake(LexUnexpandedToken(la.e), fid, result)
    ELSE [toks |-> result, e |-> la.e]

\* The while loop of lines 639-655.
TokenizeLoop(e, fid, result) == TokenizePeek(LookAhead(e), fid, result)

\* Lines 597-599: a temporary engine, entered on the main file.
TemporaryEngine(mainText) ==
    EnterMainSourceFile(NewEngine(FALSE), RawLex(mainText, MainUnit))

\* Line 656 and the resetter: l is what the loop left.  The primary engine
\* is untouched when the temporary one did the lexing.
tokenizeReturn(f, temporary, l) ==
    Ret(Outcome(l.e, "ok"),
        IF l.e.err # "" THEN <<>> ELSE l.toks,
        NoTok,
        IF temporary THEN f.pp ELSE Landed(l.e),
        PreprocessorResetter(f.active,
                             IF temporary THEN f.ppCount + 1 ELSE f.active),
        IF temporary THEN f.ppCount + 1 ELSE f.ppCount,
        f.nextFid + 1)

\* Lines 621-655: `work` is the engine after EnterSourceFile.  The depth of
\* line 625 is the primary engine's.
tokenizeEntered(f, temporary, work) ==
    tokenizeReturn(f, temporary,
        IF ~temporary /\ UnsignedLE(work.depth, f.pp.depth)
        THEN [toks |-> <<>>, e |-> work]
        ELSE TokenizeLoop(work, f.nextFid, <<>>))

\* A tokenize without the test of line 588.
tokenize_unguarded(f, mainText, text) ==
    tokenizeEntered(f, f.pp.depth = 0,
        EnterSourceFile(IF f.pp.depth = 0
                        THEN TemporaryEngine(mainText) ELSE f.pp,
                        f.nextFid, RawLex(text, f.nextFid)))

tokenize(f, mainText, text) ==
    IF text = ""
    THEN Ret("ok", <<>>, NoTok, f.pp, f.active, f.ppCount, f.nextFid)
    ELSE tokenizeEntered(f, f.pp.depth = 0,
             EnterSourceFile(IF f.pp.depth = 0
                             THEN TemporaryEngine(mainText) ELSE f.pp,
                             f.nextFid, RawLex(text, f.nextFid)))

\* Preprocessor::tokenize as a client calls it
Tokenize(text) ==
    /\ ~aborted
    /\ CountOps(Configuring) < MaxCalls
    /\ Commit("tokenize", text, "", tokenize(Facade, main, text))
    /\ UNCHANGED <<main, iters, aborted>>

(***************************************************************************)
(* Preprocessor::format (lines 674-712)                                    *)
(***************************************************************************)
RECURSIVE Repeat(_, _)
\* std::string(n, ch)
Repeat(ch, n) == IF n <= 0 THEN "" ELSE ch \o Repeat(ch, n - 1)

\* sm.getPresumedLoc(loc).isValid(): the token has a location in a source
\* unit.
PresumedValid(token) == token.unit # NoUnit

\* A format that writes the line breaks up to the first token's line too.
LineBreaks_from_zero(token, current_line) ==
    IF token.line > current_line
    THEN Repeat("\n", token.line - current_line)
    ELSE ""

\* Lines 690-700: the line breaks written before a token, none before the
\* first token written.
LineBreaks(token, current_line) ==
    IF token.line > current_line /\ current_line > 0
    THEN Repeat("\n", token.line - current_line)
    ELSE ""

\* current_column as lines 690-700 leave it.
ColumnAfterBreaks(token, current_line, current_column) ==
    IF token.line > current_line /\ current_line > 0 THEN 1 ELSE current_column

\* Lines 701-705: the spaces up to the token's column.
Padding(token, current_column) ==
    IF token.col > current_column
    THEN Repeat(" ", token.col - current_column)
    ELSE ""

RECURSIVE FormatFrom(_, _, _, _)
\* The loop of lines 680-710 from token i on; `out << token` writes the
\* token's spelling.
FormatFrom(tokens, i, current_line, current_column) ==
    IF i > Len(tokens) THEN ""
    ELSE IF ~PresumedValid(tokens[i])
    THEN FormatFrom(tokens, i + 1, current_line, current_column)
    ELSE LET token == tokens[i]
             column == ColumnAfterBreaks(token, current_line, current_column)
             at == IF token.col > column THEN token.col ELSE column
         IN  LineBreaks(token, current_line) \o Padding(token, column)
                 \o token.sp
                 \o FormatFrom(tokens, i + 1,
                               IF token.line > current_line
                               THEN token.line ELSE current_line,
                               at + Len(token.sp))

format(tokens) == FormatFrom(tokens, 1, 0, 1)

\* Preprocessor::format as a client calls it: the text is the call's result;
\* the method is const.
Format(tokens) ==
    /\ ~aborted
    /\ CountOps({"format"}) = 0
    /\ Commit("format", "", "",
              Ret(format(tokens), tokens, NoTok, pp, active, ppCount, nextFid))
    /\ UNCHANGED <<main, iters, aborted>>

(***************************************************************************)
(* Preprocessor::define(name, value) (lines 492-550)                       *)
(***************************************************************************)
\* Lines 542-548: t is what tokenize left, r what add_macro_definition did.
defineInstall(t, r) ==
    Ret(r.result, t.toks, NoTok, [t.pp EXCEPT !.macros = r.table],
        t.active, t.ppCount, t.nextFid)

\* Lines 501-549 on the value's tokens and the parsed name.
defineParsed(t, sig) ==
    IF t.result # "ok" THEN t
    ELSE IF ~sig.ok THEN [t EXCEPT !.result = "invalid_argument"]
    ELSE defineInstall(t, add_macro_definition(t.pp.macros, sig.name, t.toks,
                                               sig.args, sig.fn))

define(f, mainText, name, value) ==
    defineParsed(tokenize(f, mainText, value), ParseSignature(name))

Define(name, value) ==
    /\ ~aborted
    /\ CountOps(Configuring) < MaxCalls
    /\ Commit("define", name, value, define(Facade, main, name, value))
    /\ UNCHANGED <<main, iters, aborted>>

(***************************************************************************)
(* PreprocessorImpl::add_pragma (lines 406-426) and                        *)
(* PreprocessorImpl::add_macro_function (lines 302-400)                    *)
(***************************************************************************)
\* Would Preprocessor::AddPragmaHandler trip one of its assertions?  The
\* name is taken in the namespace, or the namespace's name is taken by a
\* plain handler.
AddPragmaHandlerAsserts(e, with_namespace, name) ==
    IF with_namespace
    THEN /\ Namespace \in DOMAIN e.pragmas
         /\ \/ e.pragmas[Namespace].type # "ns"
            \/ name \in DOMAIN e.pragmas[Namespace].sub
    ELSE name \in DOMAIN e.pragmas

\* Preprocessor::AddPragmaHandler where the assertions are compiled out (or
\* hold): the handler is stored under its name, replacing what was there.
AddPragmaHandler(e, with_namespace, name, cb) ==
    IF with_namespace
    THEN LET ns == IF Namespace \in DOMAIN e.pragmas
                   THEN e.pragmas[Namespace]
                   ELSE Handler("ns", "", NoFcn)
             ns1 == [ns EXCEPT !.sub = (name :> Handler("dyn", cb, NoFcn)) @@ @]
         IN  [e EXCEPT !.pragmas = (Namespace :> ns1) @@ @]
    ELSE [e EXCEPT !.pragmas = (name :> Handler("dyn", cb, NoFcn)) @@ @]

\* add_pragma answers whether there is a function; the engine is the second
\* half of the result.
add_pragma(e, name, function, with_namespace) ==
    IF function # NoCallback
    THEN [result |-> TRUE, e |-> AddPragmaHandler(e, with_namespace, name, function)]
    ELSE [result |-> FALSE, e |-> e]

\* A disguise that asks for the dispatch before the capture.
DisguiseBody_dispatch_first(name) ==
    <<Scratch("_Pragma", FALSE), Scratch("(", FALSE),
      Scratch("\"" \o Namespace \o " " \o name \o "\"", FALSE),
      Scratch(")", FALSE),
      Scratch("_CMONSTER_PRAGMA", FALSE), Scratch("(", FALSE),
      Scratch(CapturePragma, FALSE), Scratch("__VA_ARGS__", TRUE),
      Scratch(")", FALSE)>>

\* The body lines 318-393 give the macro:
\*   _CMONSTER_PRAGMA ( cmonster_pragma __VA_ARGS__ ) _Pragma ( "cmonster <name>" )
DisguiseBody(name) ==
    <<Scratch("_CMONSTER_PRAGMA", FALSE), Scratch("(", FALSE),
      Scratch(CapturePragma, FALSE), Scratch("__VA_ARGS__", TRUE),
      Scratch(")", FALSE),
      Scratch("_Pragma", FALSE), Scratch("(", FALSE),
      Scratch("\"" \o Namespace \o " " \o name \o "\"", FALSE),
      Scratch(")", FALSE)>>

DisguiseMacro(name) == MacroInfo(TRUE, TRUE, <<"__VA_ARGS__">>, DisguiseBody(name))

\* A variant that answers false for a name that is already defined.
add_macro_function_false(e, name, function) ==
    IF function = NoCallback \/ name \in DOMAIN e.macros
    THEN [result |-> "false", e |-> e]
    ELSE [result |-> "true",
          e |-> [add_pragma(e, name, function, TRUE).e
                    EXCEPT !.macros = (name :> DisguiseMacro(name)) @@ @]]

\* A variant that does not look at the callback before it registers.
add_macro_function_unchecked(e, name, function) ==
    IF name \in DOMAIN e.macros
    THEN [result |-> "runtime_error",
          e |-> AddPragmaHandler(e, TRUE, name, function)]
    ELSE [result |-> "true",
          e |-> [AddPragmaHandler(e, TRUE, name, function)
                    EXCEPT !.macros = (name :> DisguiseMacro(name)) @@ @]]

add_macro_function(e, name, function) ==
    LET p == add_pragma(e, name, function, TRUE) IN
    IF function # NoCallback /\ p.result
    THEN IF name \in DOMAIN p.e.macros
         THEN [result |-> "runtime_error", e |-> p.e]
         ELSE [result |-> "true",
               e |-> [p.e EXCEPT !.macros = (name :> DisguiseMacro(name)) @@ @]]
    ELSE [result |-> "false", e |-> e]

\* Preprocessor::add_pragma(name, handler) (lines 558-562): the handler is
\* registered outside the namespace (with_namespace is left at its default).
PreprocessorAddPragma(e, name, handler) ==
    LET p == add_pragma(e, name, handler, FALSE)
    IN  [result |-> IF p.result THEN "true" ELSE "false", e |-> p.e]

dynamicReturn(f, r) ==
    Ret(r.result, <<>>, NoTok, r.e, f.active, f.ppCount, f.nextFid)

Aborted(f) == Ret("abort", <<>>, NoTok, f.pp, f.active, f.ppCount, f.nextFid)

\* Preprocessor::define(name, function) (lines 552-556).  Where the engine's
\* assertion on a taken handler name would fail, the build decides: the
\* process ends there, or the call goes on.
DefineDynamic(name, function) ==
    /\ ~aborted
    /\ CountOps(Configuring) < MaxCalls
    /\ \E asserts \in IF function # NoCallback
                         /\ AddPragmaHandlerAsserts(pp, TRUE, name)
                      THEN BOOLEAN ELSE {FALSE} :
          /\ aborted' = asserts
          /\ Commit("defineDynamic", name, function,
                    IF asserts THEN Aborted(Facade)
                    ELSE dynamicReturn(Facade, add_macro_function(pp, name, function)))
    /\ UNCHANGED <<main, iters>>

\* Preprocessor::add_pragma as a client calls it.  Where the engine's
\* assertion on a taken handler name would fail, the build decides.
AddPragma(name, handler) ==
    /\ ~aborted
    /\ CountOps(Configuring) < MaxCalls
    /\ \E asserts \in IF handler # NoCallback
                         /\ AddPragmaHandlerAsserts(pp, FALSE, name)
                      THEN BOOLEAN ELSE {FALSE} :
          /\ aborted' = asserts
          /\ Commit("add_pragma", name, handler,
                    IF asserts THEN Aborted(Facade)
                    ELSE dynamicReturn(Facade,
                                       PreprocessorAddPragma(pp, name, handler)))
    /\ UNCHANGED <<main, iters>>

(***************************************************************************)
(* Preprocessor::create_iterator (lines 577-582) and TokenIteratorImpl     *)
(* (lines 451-476)                                                         *)
(***************************************************************************)
\* m_pp.Lex(m_next), r being what Lex did: with no lexer and nothing cached,
\* Lex returns at once and m_next is as it was; a Lex that runs out of lexers
\* on its way leaves the token it had cleared.
Lexed(e, m_next, r) == R(IF e.stack = <<NoLexer>> THEN m_next ELSE r.tok, r.e)

LexInto(e, m_next) == Lexed(e, m_next, Eng("Lex", <<e, TRUE>>))

has_next(it) == it.m_next.sp # "<eof>"

\* The iterator's constructor or next(), r being what Lex did; `yield` is
\* the token next() returns.
iteratorReturn(f, yield, r) ==
    Ret(Outcome(r.e, "ok"), IF r.e.err = "" THEN yield ELSE <<>>, r.tok,
        Landed(r.e), f.active, f.ppCount, f.nextFid)

create_iterator(f, mainText) ==
    iteratorReturn(f, <<>>,
        LexInto(EnterMainSourceFile(f.pp, RawLex(mainText, MainUnit)), NoTok))

Created(r) ==
    /\ Commit("create_iterator", "", "", r)
    /\ iters' = IF r.result = "ok"
                THEN Append(iters, [m_current |-> NoTok, m_next |-> r.tok])
                ELSE iters

\* Entering the main file a second time fails an assertion of the engine
\* where assertions are compiled in, and enters it again where not.
CreateIterator ==
    /\ ~aborted
    /\ Len(iters) < MaxIters
    /\ \E asserts \in IF pp.entered > 0 THEN BOOLEAN ELSE {FALSE} :
          /\ aborted' = asserts
          /\ Created(IF asserts THEN Aborted(Facade)
                     ELSE create_iterator(Facade, main))
    /\ UNCHANGED main

\* create_iterator called when the client holds MaxIters iterators already:
\* the same code, on a facade whose main pass has begun.
CreateIteratorAgain ==
    /\ ~aborted
    /\ Len(iters) >= MaxIters
    /\ Len(iters) < MaxIters + MaxAgain
    /\ \E asserts \in IF pp.entered > 0 THEN BOOLEAN ELSE {FALSE} :
          /\ aborted' = asserts
          /\ Created(IF asserts THEN Aborted(Facade)
                     ELSE create_iterator(Facade, main))
    /\ UNCHANGED main

\* A next() that returns the token it has just lexed instead of the one it
\* had.
next_lexed(f, it) ==
    iteratorReturn(f, <<LexInto(f.pp, it.m_next).tok>>, LexInto(f.pp, it.m_next))

next(f, it) == iteratorReturn(f, <<it.m_next>>, LexInto(f.pp, it.m_next))

Advanced(i, r) ==
    /\ Commit("next", "", "", r)
    /\ iters' = [iters EXCEPT ![i] = [m_current |-> iters[i].m_next,
                                      m_next |-> r.tok]]

\* TokenIteratorImpl::next, called as clients do while has_next() holds.
IterNext(i) ==
    /\ ~aborted
    /\ i \in 1..Len(iters)
    /\ has_next(iters[i])
    /\ CountOps({"next"}) < MaxNext
    /\ Advanced(i, next(Facade, iters[i]))
    /\ UNCHANGED <<main, aborted>>

(***************************************************************************)
(* Preprocessor::next(expand) (lines 659-668)                              *)
(***************************************************************************)
\* `clang::Token tok;` of line 662 is not initialized: where Lex returns
\* without writing it (no lexer, nothing cached) the token returned is
\* whatever the memory held.
Uninitialized == {NoTok, EofTok}

\* Lines 661-667 on the engine e, tok being the local as declared.
PreprocessorNext(f, expand, tok) ==
    LET r == Lexed(f.pp, tok, IF expand THEN Eng("Lex", <<f.pp, TRUE>>)
                              ELSE LexUnexpandedToken(f.pp))
    IN  Ret(Outcome(r.e, "ok"), IF r.e.err = "" THEN <<r.tok>> ELSE <<>>,
            NoTok, Landed(r.e), f.active, f.ppCount, f.nextFid)

\* Preprocessor::next as a client calls it.
FacadeNext(expand) ==
    /\ ~aborted
    /\ CountOps({"facade_next"}) < MaxFacade
    /\ \E tok \in IF pp.stack = <<NoLexer>> THEN Uninitialized ELSE {NoTok} :
          Commit("facade_next", IF expand THEN "expand" ELSE "raw", "",
                 PreprocessorNext(Facade, expand, tok))
    /\ UNCHANGED <<main, iters, aborted>>

(***************************************************************************)
(* Specifications.  Each draws the clients' inputs from its own small sets *)
(* and is otherwise the same program.                                      *)
(***************************************************************************)
InitWith(mains) ==
    /\ main \in mains
    /\ pp = NewEngine(TRUE)
    /\ active = Primary
    /\ ppCount = 1
    /\ nextFid = 1
    /\ iters = <<>>
    /\ aborted = FALSE
    /\ hist = <<>>

\* Has the main pass begun (has a client asked for an iterator)?
Started == CountOps({"create_iterator"}) > 0

\* Macro definitions: one name, equal and different values, defined as a
\* macro and as a dynamic macro, before and during the main pass.
TableMains == {"A"}
TableNames == {"A"}
TableValues == {"", "A"}
TableDynamic == {"A"}
TableCallbacks == {"echo", NoCallback}

InitTable == InitWith(TableMains)

NextTable ==
    \/ \E name \in TableNames, value \in TableValues : Define(name, value)
    \/ \E name \in TableDynamic, f \in TableCallbacks : DefineDynamic(name, f)
    \/ CreateIterator
    \/ \E i \in 1..MaxIters : IterNext(i)

SpecTable == InitTable /\ [][NextTable]_vars

\* Dynamic macros: the client registers its callbacks, then iterates.
StreamMains == {"a F(G(x))"}
StreamRegistrations ==
    {<<"F", "echo">>, <<"F", "raise">>, <<"F", "callG">>,
     <<"G", "echo">>, <<"G", "callG">>, <<"G", "empty">>}

InitStream == InitWith(StreamMains)

NextStream ==
    \/ ~Started /\ \E r \in StreamRegistrations : DefineDynamic(r[1], r[2])
    \/ CreateIterator
    \/ \E i \in 1..MaxIters : IterNext(i)

SpecStream == InitStream /\ [][NextStream]_vars

\* tokenize and the definitions that use it, before and during the main
\* pass.
TokenizeMains == {"x y"}
TokenizeTexts == {"", "A b\nc"}

InitTokenize == InitWith(TokenizeMains)

NextTokenize ==
    \/ Define("A", "1")
    \/ \E text \in TokenizeTexts : Tokenize(text)
    \/ CreateIterator
    \/ \E i \in 1..MaxIters : IterNext(i)

SpecTokenize == InitTokenize /\ [][NextTokenize]_vars

\* Iterators: the client makes one and, while it uses it, another.
RestartMains == {"x y", "a b c"}

InitRestart == InitWith(RestartMains)

NextRestart ==
    \/ CreateIterator
    \/ CreateIteratorAgain
    \/ \E i \in 1..(MaxIters + MaxAgain) : IterNext(i)

SpecRestart == InitRestart /\ [][NextRestart]_vars

\* Arguments: the main input invokes a dynamic macro with the name of a
\* macro among its arguments.
ArgumentMains == {"F(A x)"}
ArgumentValues == {"1", "b c"}
ArgumentCallbacks == {"echo", "count", "raise"}

InitArguments == InitWith(ArgumentMains)

NextArguments ==
    \/ ~Started /\ \E value \in ArgumentValues : Define("A", value)
    \/ ~Started /\ \E f \in ArgumentCallbacks : DefineDynamic("F", f)
    \/ CreateIterator
    \/ \E i \in 1..MaxIters : IterNext(i)

SpecArguments == InitArguments /\ [][NextArguments]_vars

\* Variadic macros: the client defines macros with a trailing "..."
\* parameter, then iterates over a main input that invokes one.
VariadicMains == {"F(1,2,3)"}
VariadicNames == {"F(a, ...)", "G(a, b, ...)"}
VariadicValues == {"__VA_ARGS__ a", "a"}

InitVariadic == InitWith(VariadicMains)

NextVariadic ==
    \/ ~Started /\ \E name \in VariadicNames, value \in VariadicValues :
                       Define(name, value)
    \/ CreateIterator
    \/ \E i \in 1..MaxIters : IterNext(i)

SpecVariadic == InitVariadic /\ [][NextVariadic]_vars

\* Interleaving: the client pulls tokens through an iterator and through
\* the facade's next(expand) in turn.
InterleaveMains == {"x y", "a b c"}

InitInterleave == InitWith(InterleaveMains)

NextInterleave ==
    \/ CreateIterator
    \/ \E i \in 1..MaxIters : IterNext(i)
    \/ Started /\ \E expand \in BOOLEAN : FacadeNext(expand)

SpecInterleave == InitInterleave /\ [][NextInterleave]_vars

\* Pragmas: the client registers a pragma handler and a dynamic macro; the
\* main input writes the handlers' pragmas itself.
PragmaMains == {"_Pragma(\"P x\") y", "F(y) _Pragma(\"cmonster F\") z"}
PragmaNames == {"P"}
PragmaDynamic == {"F"}
PragmaCallbacks == {"echo", "count", NoCallback}

InitPragma == InitWith(PragmaMains)

NextPragma ==
    \/ \E name \in PragmaNames, f \in PragmaCallbacks : AddPragma(name, f)
    \/ \E name \in PragmaDynamic, f \in PragmaCallbacks \ {NoCallback} :
           DefineDynamic(name, f)
    \/ CreateIterator
    \/ \E i \in 1..MaxIters : IterNext(i)

SpecPragma == InitPragma /\ [][NextPragma]_vars

\* Formatting: the client formats one sequence of tokens, located on lines
\* and columns that leave gaps or not located at all.
FormatMains == {"x y"}
FormatTokens ==
    {Tok("ab", MainUnit, l, c, FALSE, FALSE) : l \in {1, 3}, c \in {1, 4}}
        \cup {Tok("ab", NoUnit, 0, 0, FALSE, FALSE)}
FormatInputs == UNION {[1..n -> FormatTokens] : n \in 0..MaxTokens}

InitFormat == InitWith(FormatMains)

NextFormat == \E tokens \in FormatInputs : Format(tokens)

SpecFormat == InitFormat /\ [][NextFormat]_vars

\* Macro signatures, well- and ill-formed.
SignatureMains == {"x y"}
SignatureNames ==
    {"G(a , b)", "G(a", "G)", "G(a,,b)", "G( )", "G(a, )", "G(a, a)"}
SignatureValues == {"1"}

InitSignature == InitWith(SignatureMains)

NextSignature ==
    \/ \E name \in SignatureNames, value \in SignatureValues : Define(name, value)
    \/ CreateIterator
    \/ \E i \in 1..MaxIters : IterNext(i)

SpecSignature == InitSignature /\ [][NextSignature]_vars

(***************************************************************************)
(* Properties.  hist holds one record per call of the facade, pp.log one   *)
(* event per capture and per callback invocation of the primary engine.    *)
(***************************************************************************)
Calls == DOMAIN hist

Events == DOMAIN pp.log

\* The spellings the disguise of a dynamic macro is made of.
DisguiseSpellings == {"_CMONSTER_PRAGMA", "_Pragma", CapturePragma}

\* The callbacks a name was registered with by a defineDynamic that
\* answered true.
RegisteredWith(name) ==
    {hist[i].a2 : i \in {j \in Calls : /\ hist[j].op = "defineDynamic"
                                        /\ hist[j].a1 = name
                                        /\ hist[j].result = "true"}}

\* C1: every callback invocation for a dynamic macro F is an invocation of
\* the callback F was registered with, and no token a next() returns is one
\* of the disguise's tokens (_CMONSTER_PRAGMA, _Pragma, cmonster_pragma).
C1_DynamicYield ==
    /\ \A k \in Events :
          pp.log[k].ev \in {"dispatch", "raise"}
              => pp.log[k].cb \in RegisteredWith(pp.log[k].name)
    /\ \A i \in Calls :
          hist[i].op = "next"
              => \A n \in DOMAIN hist[i].toks :
                    hist[i].toks[n].sp \notin DisguiseSpellings

\* The definition a define(name, value) asks for, the value lexed as it is
\* written.
AsWritten(i) ==
    BuildMacro(RawLex(hist[i].a2, ScratchUnit),
               ParseSignature(hist[i].a1).args, ParseSignature(hist[i].a1).fn)

\* Different body tokens, parameter names or function-like/variadic flags.
Differs(m, other) ==
    \/ m.fn # other.fn
    \/ m.va # other.va
    \/ m.args # other.args
    \/ Spellings(m.body) # Spellings(other.body)

\* A define of a well-formed name that is bound when the call begins.
Redefines(i) ==
    /\ hist[i].op = "define"
    /\ ParseSignature(hist[i].a1).ok
    /\ ParseSignature(hist[i].a1).name \in DOMAIN hist[i].macros0

\* C2: a define of a bound name N with a definition that differs from the
\* one N has returns false and leaves the macro table as it was.
C2_RedefineRefused ==
    \A i \in Calls :
        Redefines(i)
        /\ Differs(AsWritten(i), hist[i].macros0[ParseSignature(hist[i].a1).name])
            => /\ hist[i].result = "false"
               /\ hist[i].macros = hist[i].macros0

\* C3: define(N, V) that succeeds, followed at once by the same define(N, V),
\* succeeds again and the macro table is the same after both.
C3_RedefineIdentical ==
    \A i \in Calls :
        (/\ i + 1 \in Calls
         /\ hist[i].op = "define" /\ hist[i + 1].op = "define"
         /\ hist[i].a1 = hist[i + 1].a1 /\ hist[i].a2 = hist[i + 1].a2
         /\ hist[i].result = "true")
            => /\ hist[i + 1].result = "true"
               /\ hist[i + 1].macros = hist[i].macros

\* A defineDynamic with a callback, of a name that is bound when the call
\* begins.
RegistersBound(i) ==
    /\ hist[i].op = "defineDynamic"
    /\ hist[i].a2 # NoCallback
    /\ hist[i].a1 \in DOMAIN hist[i].macros0

\* C4 as the specification states it: defineDynamic of a bound name returns
\* false.
C4_ReturnsFalse ==
    \A i \in Calls : RegistersBound(i) => hist[i].result = "false"

\* C4: defineDynamic with a callback, of a bound name, never returns a
\* boolean: it raises the runtime error "Macro already defined" or, where
\* the engine asserts that the handler name is free, ends the process; the
\* macro table is left as it was.
C4_RaisesAlreadyDefined ==
    \A i \in Calls :
        RegistersBound(i)
            => /\ hist[i].result \in {"runtime_error", "abort"}
               /\ hist[i].macros = hist[i].macros0

\* A defineDynamic of a bound name has raised.
C4_Witness ==
    \E i \in Calls : RegistersBound(i) /\ hist[i].result = "runtime_error"

\* What is pending on a lexer stack: frame by frame the tokens still to be
\* lexed, the end-of-directive marker of a pragma apart.
NotEod(t) == t.sp # "<eod>"

Pending(stack) ==
    [i \in 1..Len(stack) |->
        [kind |-> stack[i].kind, name |-> stack[i].name,
         toks |-> SelectSeq(stack[i].toks, NotEod)]]

\* The events call i logged.
EventsOf(i) == (hist[i].log0 + 1)..hist[i].log

\* C5: where a callback raises, the pending token stream is as it was when
\* the handler was reached: nothing of a result has been entered; the call
\* that pulled the token ends with the callback's error and leaves the
\* stream as the raise left it.
C5_RaisePropagates ==
    /\ \A k \in Events :
          pp.log[k].ev = "raise"
              => Pending(pp.log[k].after) = Pending(pp.log[k].before)
    /\ \A i \in Calls :
          \A k \in EventsOf(i) :
              pp.log[k].ev = "raise"
                  => /\ hist[i].result = "raise"
                     /\ hist[i].toks = <<>>
                     /\ k = hist[i].log
                     /\ hist[i].stack = pp.log[k].after

\* A callback has raised while a next() pulled a token.
C5_Witness ==
    \E i \in Calls :
        /\ hist[i].op = "next"
        /\ \E k \in EventsOf(i) : pp.log[k].ev = "raise"

\* The macro a callback's result invokes: "" where the result does not begin
\* with a name and a left parenthesis.
InvokedBy(result) ==
    IF Len(result) >= 2 /\ IsIdentifier(result[1].sp) /\ result[2].sp = "("
    THEN result[1].sp ELSE ""

\* The macros in the course of expansion on a lexer stack.
Expanding(stack) ==
    {stack[i].name : i \in {j \in 1..Len(stack) : stack[j].kind = "macro"}}

IsDynamic(name) ==
    /\ name \in DOMAIN pp.macros
    /\ pp.macros[name].body = DisguiseBody(name)

\* Event k + 1 is a capture and event k + 2 the callback of `name` reading it.
DispatchedNext(k, name) ==
    /\ k + 2 \in Events
    /\ pp.log[k + 1].ev = "capture"
    /\ pp.log[k + 2].ev \in {"dispatch", "raise"}
    /\ pp.log[k + 2].name = name

Creations ==
    {c \in Calls : /\ hist[c].op = "create_iterator"
                   /\ hist[c].result = "ok"
                   /\ hist[c].entered0 = 0}

\* After call c the client has only called next(), and no callback raised.
OnlyNextAfter(c) ==
    \A i \in Calls : i > c => hist[i].op = "next" /\ hist[i].result = "ok"

\* The fully expanded token stream of the main input under the macros and
\* handlers of the engine when call c began: the engine lexed to the end.
Reference(c) ==
    FullLex(EnterMainSourceFile([NewEngine(TRUE) EXCEPT
                                    !.macros = hist[c].macros0,
                                    !.pragmas = hist[c].pragmas0],
                                RawLex(main, MainUnit)))

\* The tokens the calls after c returned.
Yielded(c) == [j \in 1..(Len(hist) - c) |-> hist[c + j].toks[1]]

InOrder(yielded, ref, it) ==
    ref.e.err = ""
        => /\ Len(yielded) <= Len(ref.toks)
           /\ yielded = SubSeq(ref.toks, 1, Len(yielded))
           /\ has_next(it) <=> Len(yielded) < Len(ref.toks)

\* C8: the successive next() calls on an iterator return the tokens of the
\* fully expanded main input t1..tn in order, none skipped and none twice,
\* and has_next() before the i-th next() is true exactly when i <= n.
C8_InOrder ==
    \A c \in Creations :
        OnlyNextAfter(c)
            => InOrder(Yielded(c), Reference(c), iters[Len(iters)])

\* An iterator has returned every token of a stream that a dynamic macro
\* took part in, and has_next() is false.
C8_Witness ==
    \E c \in Creations :
        /\ OnlyNextAfter(c)
        /\ Len(hist) - c >= 2
        /\ Len(pp.log) > 0
        /\ ~has_next(iters[Len(iters)])

\* C9: tokenize(text) returns the raw tokens of text, in order and
\* unexpanded, every one of them from the ephemeral source unit of the call.
C9_RawTokens ==
    \A i \in Calls :
        hist[i].op = "tokenize" /\ hist[i].result = "ok"
            => /\ Spellings(hist[i].toks)
                    = Spellings(RawLex(hist[i].a1, hist[i].fid))
               /\ \A n \in DOMAIN hist[i].toks :
                      hist[i].toks[n].unit = hist[i].fid

\* A tokenize or a define of a value, called before the main file is
\* entered.
BeforeMainPass(i) ==
    /\ hist[i].op \in {"tokenize", "define"}
    /\ hist[i].entered0 = 0

\* C10: a tokenize before the main pass, called directly or by define,
\* returns with the primary engine active and not entered on the main
\* input, its pragma handlers unchanged and its macro table unchanged but
\* for the macro a define adds; a create_iterator that follows yields the
\* main input from its first token.
C10_BeforeMainPass ==
    /\ \A i \in Calls :
          BeforeMainPass(i)
              => /\ hist[i].active = Primary
                 /\ hist[i].entered = 0
                 /\ hist[i].depth = 0
                 /\ hist[i].stack = hist[i].stack0
                 /\ hist[i].pragmas = hist[i].pragmas0
                 /\ \A n \in DOMAIN hist[i].macros0 :
                        /\ n \in DOMAIN hist[i].macros
                        /\ hist[i].macros[n] = hist[i].macros0[n]
                 /\ hist[i].op = "tokenize"
                        => hist[i].macros = hist[i].macros0
    /\ \A c \in Creations :
          Reference(c).toks # <<>> => hist[c].tok = Reference(c).toks[1]

\* A text was tokenized before the main pass, and the iterator made after
\* it has returned a token.
C10_Witness ==
    \E c \in Creations :
        /\ \E i \in 1..(c - 1) :
              /\ hist[i].op = "tokenize"
              /\ hist[i].toks # <<>>
        /\ \E i \in Calls : i > c /\ hist[i].op = "next"

\* The next() calls after call c, in order, and the tokens they returned.
IsNext(call) == call.op = "next"

NextsAfter(c) == SelectSeq(SubSeq(hist, c + 1, Len(hist)), IsNext)

YieldedByNexts(c) == [j \in 1..Len(NextsAfter(c)) |-> NextsAfter(c)[j].toks[1]]

\* After call c the client has only pulled tokens and called tokenize, and
\* every call returned.
OnlyTokenizeBetween(c) ==
    \A i \in Calls :
        i > c => hist[i].op \in {"next", "tokenize"} /\ hist[i].result = "ok"

\* C11: a tokenize called while the main pass is in progress consumes no
\* token of the main input: the tokens the iterator yields, tokenize calls
\* in between or not, are the tokens of the fully expanded main input in
\* order.
C11_MainStreamKept ==
    \A c \in Creations :
        (OnlyTokenizeBetween(c) /\ Reference(c).e.err = "")
            => /\ Len(YieldedByNexts(c)) <= Len(Reference(c).toks)
               /\ YieldedByNexts(c)
                     = SubSeq(Reference(c).toks, 1, Len(YieldedByNexts(c)))

\* Is s made of tokens separated by single spaces or newlines, with no
\* whitespace at either end?
IsBlank(ch) == ch \in {" ", "\n"}

SinglySeparated(s) ==
    /\ s # ""
    /\ ~IsBlank(CharAt(s, 0))
    /\ ~IsBlank(CharAt(s, Len(s) - 1))
    /\ \A k \in 0..(Len(s) - 2) : ~(IsBlank(CharAt(s, k)) /\ IsBlank(CharAt(s, k + 1)))

\* No token of the text of call i names a macro, and none begins a directive.
MacroFree(i) ==
    \A n \in DOMAIN RawLex(hist[i].a1, ScratchUnit) :
        /\ RawLex(hist[i].a1, ScratchUnit)[n].sp \notin DOMAIN hist[i].macros0
        /\ ~IsDirective(RawLex(hist[i].a1, ScratchUnit)[n].sp)

\* C12: for a text s of tokens separated by single spaces or newlines, with
\* no macro name in it, format(tokenize(s)) is s.
C12_RoundTrip ==
    \A i \in Calls :
        (/\ hist[i].op = "tokenize"
         /\ hist[i].result = "ok"
         /\ SinglySeparated(hist[i].a1)
         /\ MacroFree(i))
            => format(hist[i].toks) = hist[i].a1

\* Does the string hold the character?
HasChar(s, ch) == \E k \in 0..(Len(s) - 1) : CharAt(s, k) = ch

\* A name ending in ')' that has no '('.
NoOpening(name) ==
    name # "" /\ CharAt(name, Len(name) - 1) = ")" /\ ~HasChar(name, "(")

\* A '(' with no closing ')'.
Unclosed(name) == HasChar(name, "(") /\ ~HasChar(name, ")")

\* Two commas with nothing but spaces between them.
EmptyBetweenCommas(name) ==
    \E k \in 0..(Len(name) - 1), l \in 0..(Len(name) - 1) :
        /\ k < l
        /\ CharAt(name, k) = "," /\ CharAt(name, l) = ","
        /\ \A m \in (k + 1)..(l - 1) : CharAt(name, m) = " "

Malformed(name) == NoOpening(name) \/ Unclosed(name) \/ EmptyBetweenCommas(name)

\* C13: a define with a malformed signature ends with the syntax error and
\* leaves the macro table as it was.
C13_MalformedRaises ==
    \A i \in Calls :
        hist[i].op = "define" /\ Malformed(hist[i].a1)
            => /\ hist[i].result = "invalid_argument"
               /\ hist[i].macros = hist[i].macros0

\* A define of a well-formed function-like signature whose last parameter
\* is "...", that installed its macro.
InstallsVariadic(i) ==
    /\ hist[i].op = "define"
    /\ hist[i].result = "true"
    /\ ParseSignature(hist[i].a1).ok
    /\ ParseSignature(hist[i].a1).args # <<>>
    /\ ParseSignature(hist[i].a1).args[Len(ParseSignature(hist[i].a1).args)] = "..."
    /\ ParseSignature(hist[i].a1).name \notin DOMAIN hist[i].macros0

\* The parameter names written before the "...".
FixedNames(i) ==
    SubSeq(ParseSignature(hist[i].a1).args, 1,
           Len(ParseSignature(hist[i].a1).args) - 1)

\* The argument spellings of the main input's one invocation NAME(...): the
\* tokens before the first comma, and the tokens after it.
MainArguments == SubSeq(Spellings(RawLex(main, MainUnit)), 3,
                        Len(RawLex(main, MainUnit)) - 1)

FirstComma(args) == CHOOSE k \in 1..Len(args) :
                        /\ args[k] = ","
                        /\ \A l \in 1..(k - 1) : args[l] # ","

FirstArgument == SubSeq(MainArguments, 1, FirstComma(MainArguments) - 1)

RemainingArguments ==
    SubSeq(MainArguments, FirstComma(MainArguments) + 1, Len(MainArguments))

RECURSIVE Bound(_, _, _)
\* A body's spellings with a replaced by `first` and __VA_ARGS__ by `rest`.
Bound(body, first, rest) ==
    IF body = <<>> THEN <<>>
    ELSE (IF Head(body) = "a" THEN first
          ELSE IF Head(body) = "__VA_ARGS__" THEN rest
          ELSE <<Head(body)>>) \o Bound(Tail(body), first, rest)

\* The macro the main input invokes has the parameters (a, ...) when call c
\* begins.
InvokesVariadic(c) ==
    /\ "F" \in DOMAIN hist[c].macros0
    /\ hist[c].macros0["F"].va
    /\ hist[c].macros0["F"].args = <<"a", "__VA_ARGS__">>

\* What the main input's invocation is to expand to under the macro F of
\* call c.
ExpansionExpected(c) ==
    Bound(Spellings(hist[c].macros0["F"].body), FirstArgument, RemainingArguments)

\* C14: a define whose last parameter is "..." installs a variadic macro
\* whose parameters are the names written before it, in order, followed by
\* __VA_ARGS__; the expansion of a macro with the parameters (a, ...) has the
\* first argument for a and all the remaining arguments, commas included,
\* for __VA_ARGS__.
C14_Variadic ==
    /\ \A i \in Calls :
          InstallsVariadic(i)
              => /\ hist[i].macros[ParseSignature(hist[i].a1).name].fn
                 /\ hist[i].macros[ParseSignature(hist[i].a1).name].va
                 /\ hist[i].macros[ParseSignature(hist[i].a1).name].args
                        = FixedNames(i) \o <<"__VA_ARGS__">>
    /\ \A c \in Creations :
          OnlyNextAfter(c) /\ InvokesVariadic(c)
              => /\ Len(Yielded(c)) <= Len(ExpansionExpected(c))
                 /\ Spellings(Yielded(c))
                        = SubSeq(ExpansionExpected(c), 1, Len(Yielded(c)))
                 /\ ~has_next(iters[Len(iters)])
                        => Spellings(Yielded(c)) = ExpansionExpected(c)

\* A macro with the parameters (a, ...) and both of them in its body was
\* defined, and the iterator has returned its whole expansion.
C14_Witness ==
    \E c \in Creations :
        /\ OnlyNextAfter(c)
        /\ InvokesVariadic(c)
        /\ Spellings(hist[c].macros0["F"].body) = <<"__VA_ARGS__", "a">>
        /\ ~has_next(iters[Len(iters)])
        /\ Spellings(Yielded(c)) = <<"2", ",", "3", "1">>

\* A signature of the form NAME(...).
HasParameterList(name) ==
    name # "" /\ CharAt(name, Len(name) - 1) = ")" /\ HasChar(name, "(")

\* A parameter name as the splitting loop is to leave it.
Trimmed(arg) ==
    /\ arg # ""
    /\ CharAt(arg, 0) # " "
    /\ CharAt(arg, Len(arg) - 1) # " "

\* C20: for a signature NAME(...) the splitting loop of define ends, with
\* the syntax error or with parameter names that are each non-empty and
\* without a space at either end; a define that installs its macro gives it
\* such parameter names.
C20_ParametersNamed ==
    \A i \in Calls :
        hist[i].op = "define" /\ HasParameterList(hist[i].a1)
            => /\ ParseSignature(hist[i].a1).ok
                    => \A k \in DOMAIN ParseSignature(hist[i].a1).args :
                           Trimmed(ParseSignature(hist[i].a1).args[k])
               /\ ~ParseSignature(hist[i].a1).ok
                    => hist[i].result = "invalid_argument"
               /\ (/\ hist[i].result = "true"
                   /\ ParseSignature(hist[i].a1).name \notin DOMAIN hist[i].macros0)
                    => \A k \in DOMAIN hist[i].macros[ParseSignature(hist[i].a1).name].args :
                           hist[i].macros[ParseSignature(hist[i].a1).name].args[k] # ""

\* A call through the iterator interface on a facade whose main pass has
\* begun.
IteratesStarted(i) ==
    /\ hist[i].op \in {"create_iterator", "next"}
    /\ hist[i].entered0 > 0

\* The next() calls that returned a token of the main input.
YieldsOfMain ==
    {i \in Calls : /\ hist[i].op = "next"
                   /\ hist[i].result = "ok"
                   /\ hist[i].toks[1].unit = MainUnit}

\* C15: once the main pass has begun, no create_iterator and no next()
\* enters a source file again, the main input least of all, and no token of
\* the main input is yielded twice.
C15_NotRestarted ==
    /\ \A i \in Calls :
          IteratesStarted(i) => hist[i].entered = hist[i].entered0
    /\ \A i \in YieldsOfMain, j \in YieldsOfMain :
          i # j => hist[i].toks[1] # hist[j].toks[1]

\* A defineDynamic without a callback.
RegistersNothing(i) ==
    /\ hist[i].op = "defineDynamic"
    /\ hist[i].a2 = NoCallback

\* C16: defineDynamic with an empty callback returns false and changes
\* nothing: the pragma handlers, the macro table and the rest of the engine
\* are as they were.
C16_EmptyCallback ==
    \A i \in Calls :
        RegistersNothing(i)
            => /\ hist[i].result = "false"
               /\ hist[i].pragmas = hist[i].pragmas0
               /\ hist[i].macros = hist[i].macros0
               /\ hist[i].stack = hist[i].stack0
               /\ hist[i].depth = hist[i].depth0
               /\ hist[i].entered = hist[i].entered0
               /\ hist[i].log = hist[i].log0

\* A defineDynamic without a callback was refused for a free name, and the
\* name was registered by the call after it.
C16_Witness ==
    \E i \in Calls :
        /\ RegistersNothing(i)
        /\ hist[i].a1 \notin DOMAIN hist[i].macros0
        /\ i + 1 \in Calls
        /\ hist[i + 1].op = "defineDynamic"
        /\ hist[i + 1].a1 = hist[i].a1
        /\ hist[i + 1].result = "true"

\* The step is a tokenize of the empty text.
TokenizesNothing ==
    /\ Len(hist') = Len(hist) + 1
    /\ hist'[Len(hist')].op = "tokenize"
    /\ hist'[Len(hist')].a1 = ""

\* C17: a tokenize of the empty text returns no token and no error, and
\* leaves the facade as it was: no source unit is registered, no engine is
\* made, the primary engine and the iterators are untouched, before the main
\* pass and during it.
C17_EmptyText ==
    [][TokenizesNothing
          => /\ hist'[Len(hist')].result = "ok"
             /\ hist'[Len(hist')].toks = <<>>
             /\ nextFid' = nextFid
             /\ ppCount' = ppCount
             /\ active' = active
             /\ pp' = pp
             /\ iters' = iters]_vars

\* The empty text was tokenized before the main pass and during it.
C17_Witness ==
    /\ \E i \in Calls :
          /\ hist[i].op = "tokenize" /\ hist[i].a1 = ""
          /\ hist[i].entered0 = 0
    /\ \E i \in Calls :
          /\ hist[i].op = "tokenize" /\ hist[i].a1 = ""
          /\ hist[i].entered0 > 0 /\ hist[i].depth0 > 0

\* The callback invocations that returned.
Dispatches == {k \in Events : pp.log[k].ev = "dispatch"}

\* The frame on top of a lexer stack holds exactly the tokens of `result`,
\* in order, the first as it is and every other with its leading-space flag
\* set.
EnteredInFront(stack, result) ==
    /\ Head(stack).kind = "stream"
    /\ Len(Head(stack).toks) = Len(result)
    /\ Head(stack).toks[1] = result[1]
    /\ \A n \in 2..Len(result) :
          /\ Head(stack).toks[n].ls
          /\ [Head(stack).toks[n] EXCEPT !.ls = result[n].ls] = result[n]

\* C18: a callback's non-empty result r1..rn is entered in front of
\* everything that was pending when the handler was reached, r1 as returned
\* and r2..rn with the leading-space flag set; an empty result leaves what
\* was pending as it was.
C18_ResultEntered ==
    \A k \in Dispatches :
        /\ pp.log[k].result # <<>>
              => /\ EnteredInFront(pp.log[k].after, pp.log[k].result)
                 /\ Pending(Tail(pp.log[k].after)) = Pending(pp.log[k].before)
        /\ pp.log[k].result = <<>>
              => Pending(pp.log[k].after) = Pending(pp.log[k].before)

\* One callback has returned several tokens, the first without a leading
\* space, and one has returned none.
C18_Witness ==
    /\ \E k \in Dispatches :
          /\ Len(pp.log[k].result) >= 2
          /\ ~pp.log[k].result[1].ls
          /\ \E n \in 2..Len(pp.log[k].result) : ~pp.log[k].result[n].ls
    /\ \E k \in Dispatches : pp.log[k].result = <<>>

\* The callback invocations, returned or raised, of the macro the main
\* input invokes.
InvocationsOfMain == {k \in Events : /\ pp.log[k].ev \in {"dispatch", "raise"}
                                     /\ pp.log[k].name = "F"}

RECURSIVE Expanded(_)
\* Argument spellings with every name of an object-like macro replaced by
\* the spellings of the macro's body.
Expanded(args) ==
    IF args = <<>> THEN <<>>
    ELSE (IF Head(args) \in DOMAIN pp.macros /\ ~pp.macros[Head(args)].fn
          THEN Spellings(pp.macros[Head(args)].body)
          ELSE <<Head(args)>>) \o Expanded(Tail(args))

\* C19 as the specification states it: the callback is passed the
\* invocation's argument tokens as they are written, a macro's name among
\* them as an identifier.
C19_ArgumentsUnexpanded ==
    \A k \in InvocationsOfMain : Spellings(pp.log[k].toks) = MainArguments

\* C19: the callback is passed the invocation's argument tokens macro-
\* expanded: where an argument holds the name of an object-like macro of the
\* macro table, the callback is passed the tokens of its body in the name's
\* place.
C19_ArgumentsExpanded ==
    \A k \in InvocationsOfMain :
        Spellings(pp.log[k].toks) = Expanded(MainArguments)

\* A callback was passed the body of the macro named in the invocation.
C19_Witness ==
    \E k \in InvocationsOfMain :
        /\ "A" \in DOMAIN pp.macros
        /\ Spellings(pp.log[k].toks) = <<"1", "x">>
        /\ MainArguments = <<"A", "x">>

\* No parameter name of the definition is written twice.
DistinctParameters(m) ==
    \A k \in DOMAIN m.args, l \in DOMAIN m.args :
        k # l => m.args[k] # m.args[l]

\* C21: after every define, every definition of the macro table has
\* pairwise distinct parameter names.
C21_ParametersDistinct ==
    \A i \in Calls :
        hist[i].op = "define"
            => \A n \in DOMAIN hist[i].macros :
                   DistinctParameters(hist[i].macros[n])

\* The cursor line after the first k tokens: the greatest line of a located
\* token among them, 0 while none was written.
CursorLine(tokens, k) ==
    LET lines == {tokens[j].line : j \in {j \in 1..k : tokens[j].unit # NoUnit}}
    IN  IF lines = {} THEN 0 ELSE CHOOSE l \in lines : \A m \in lines : m <= l

\* Token k starts a new line: its line exceeds the cursor line, and, where
\* `started` is asked for, a token was written before it.
BreaksLine(tokens, k, started) ==
    /\ tokens[k].line > CursorLine(tokens, k - 1)
    /\ started => CursorLine(tokens, k - 1) > 0

RECURSIVE CursorColumn(_, _, _)
\* The cursor column after the first k tokens.
CursorColumn(tokens, k, started) ==
    IF k = 0 THEN 1
    ELSE IF tokens[k].unit = NoUnit THEN CursorColumn(tokens, k - 1, started)
    ELSE LET before == IF BreaksLine(tokens, k, started) THEN 1
                       ELSE CursorColumn(tokens, k - 1, started)
             at == IF tokens[k].col > before THEN tokens[k].col ELSE before
         IN  at + Len(tokens[k].sp)

\* What token k adds to the text: nothing without a location, else the
\* newlines up to its line, the spaces up to its column and its spelling.
Emitted(tokens, k, started) ==
    IF tokens[k].unit = NoUnit THEN ""
    ELSE LET before == IF BreaksLine(tokens, k, started) THEN 1
                       ELSE CursorColumn(tokens, k - 1, started)
         IN  (IF BreaksLine(tokens, k, started)
              THEN Repeat("\n", tokens[k].line - CursorLine(tokens, k - 1))
              ELSE "")
             \o (IF tokens[k].col > before
                 THEN Repeat(" ", tokens[k].col - before) ELSE "")
             \o tokens[k].sp

\* Every token of every formatted sequence adds Emitted to the text of the
\* tokens before it.
CursorLaw(started) ==
    \A i \in Calls :
        hist[i].op = "format"
            => \A k \in 1..Len(hist[i].toks) :
                   format(SubSeq(hist[i].toks, 1, k))
                       = format(SubSeq(hist[i].toks, 1, k - 1))
                             \o Emitted(hist[i].toks, k, started)

\* C22: format walks the tokens with a (line, column) cursor: a located token
\* whose line exceeds the cursor line, when a token was written before it,
\* adds (line - cursor line) newlines and resets the cursor column to 1; the
\* first located token adds no newline whatever its line; then a column
\* beyond the cursor column adds (column - cursor column) spaces; then the
\* spelling is added and the cursor column advances by its length; a token
\* without a location adds nothing and leaves the cursor alone.
C22_FormatCursor == CursorLaw(TRUE)

\* C22 as stated: every located token whose line exceeds the cursor line adds
\* (line - cursor line) newlines, the first one included.
C22_FormatCursorAlways == CursorLaw(FALSE)

\* A sequence was formatted whose first token has no location, whose first
\* located token is beyond column 1 and whose last token is on a later line.
C22_Witness ==
    \E i \in Calls :
        /\ hist[i].op = "format"
        /\ Len(hist[i].toks) = 3
        /\ hist[i].toks[1].unit = NoUnit
        /\ hist[i].toks[2].unit # NoUnit /\ hist[i].toks[2].col > 1
        /\ hist[i].toks[3].unit # NoUnit
        /\ hist[i].toks[3].line > hist[i].toks[2].line
        /\ hist[i].result = "   ab\n\nab"

\* The names that have a dispatch handler in the cmonster namespace.
Dispatched(pragmas) ==
    IF Namespace \in DOMAIN pragmas /\ pragmas[Namespace].type = "ns"
    THEN DOMAIN pragmas[Namespace].sub ELSE {}

\* The names the macro table binds to their disguise.
Disguised(macros) == {n \in DOMAIN macros : macros[n] = DisguiseMacro(n)}

\* C23: after every define and defineDynamic call that returns or raises, the
\* names with a dispatch handler in the cmonster namespace are the names the
\* macro table binds to the disguised dynamic macro; a defineDynamic that
\* raises because the name is defined leaves the handlers as they were.
C23_HandlerIffDisguised ==
    \A i \in Calls :
        hist[i].op \in {"define", "defineDynamic"} /\ hist[i].result # "abort"
            => /\ Dispatched(hist[i].pragmas) = Disguised(hist[i].macros)
               /\ hist[i].result = "runtime_error"
                      => hist[i].pragmas = hist[i].pragmas0

\* The callback invocations of the log: those that returned and those that
\* raised.
Invocations == {k \in Events : pp.log[k].ev \in {"dispatch", "raise"}}

\* Invocation k was passed what a capture wrote after the invocation before
\* it.
FreshCapture(k) ==
    \E j \in 1..(k - 1) :
        /\ pp.log[j].ev = "capture"
        /\ pp.log[j].toks = pp.log[k].toks
        /\ \A m \in (j + 1)..(k - 1) : m \notin Invocations

\* C24: every callback invocation of a dispatch handler is passed a capture
\* written since the invocation before it, whether the handler was registered
\* by defineDynamic or by add_pragma and whether its pragma comes from the
\* disguise or from the source text.
C24_CaptureFresh == \A k \in Invocations : FreshCapture(k)

\* The tokens calls c+1.. handed to the client, in the order of the calls,
\* by an iterator's next() or by the facade's next(expand); the end-of-input
\* marker is not a token of the stream.
RECURSIVE DeliveredFrom(_)
DeliveredFrom(i) ==
    IF i > Len(hist) THEN <<>>
    ELSE (IF hist[i].op \in {"next", "facade_next"} /\ hist[i].toks # <<>>
             /\ ~Ended(hist[i].toks[1])
          THEN <<hist[i].toks[1]>> ELSE <<>>) \o DeliveredFrom(i + 1)

\* C25: whatever the interleaving of an iterator's next() with the facade's
\* next(expand), the tokens that reach the client are the tokens of the main
\* stream from its first, each once and in the order of the stream.
C25_InterleavedInOrder ==
    \A c \in Creations :
        LET delivered == DeliveredFrom(c + 1)
            ref == Reference(c)
        IN  /\ Len(delivered) <= Len(ref.toks)
            /\ delivered = SubSeq(ref.toks, 1, Len(delivered))

====
